---- MODULE Spec2Model ----
(***************************************************************************)
(* JotDB: a single Durable Object holding one JSON document (an object or  *)
(* an array), a schema inferred from the first write, two policy flags and *)
(* a capped audit trail.  The model follows the latest snapshot of the     *)
(* class (the one shipped with the bun test suite): every public method is *)
(* one atomic action, because the Durable Object runtime runs one          *)
(* invocation at a time and closes its input gate across storage awaits.   *)
(* Durable storage copies values on put and get (structured clone).        *)
(***************************************************************************)
EXTENDS Integers, Sequences, FiniteSets, TLC

\* ------------------------------------------------------------------ bounds
\* number of calls (of any method, restarts included) in one behaviour
MaxCalls == 3

\* number of calls in a behaviour of the first-write specification
MaxInferCalls == 2

\* ------------------------------------------------------- program constants
\* logAudit: this.auditLog.slice(0, 100)
AuditCap == 100

\* ------------------------------------------------------------- JSON values
\* A literal is named by a string; TypeOfLit is what typeof / Array.isArray
\* say about it.  "[]" and "{}" are an array and a plain object used as the
\* value of a field (their contents are never inspected by the store).
StringLits == {"x", "y", "@", "j@x.io"}
NumberLits == {"n1", "n2"}

TypeOfLit(l) ==
  CASE l \in StringLits -> "string"
    [] l \in NumberLits -> "number"
    [] l = "true"       -> "boolean"
    [] l = "[]"         -> "array"
    [] l = "{}"         -> "object"
    [] l = "null"       -> "null"
    [] OTHER            -> "undefined"

\* v.includes("@")
HasAt(l) == l \in {"@", "j@x.io"}

\* what zod's .email() accepts among the string literals
IsEmail(l) == l = "j@x.io"

\* A JSON value: a literal, an object (ordered key/value pairs, insertion
\* order as Object.keys reports it) or an array of values.
Lit(l)  == [t |-> "lit", lit |-> l,  flds |-> <<>>, items |-> <<>>]
Obj(f)  == [t |-> "obj", lit |-> "", flds |-> f,    items |-> <<>>]
Arr(is) == [t |-> "arr", lit |-> "", flds |-> <<>>, items |-> is]

Pair(k, v) == [k |-> k, v |-> v]

HasKey(f, k) == \E i \in 1..Len(f) : f[i].k = k

Lookup(f, k) ==
  IF HasKey(f, k) THEN f[CHOOSE i \in 1..Len(f) : f[i].k = k].v
  ELSE "undefined"

KeysOf(f) == [i \in 1..Len(f) |-> f[i].k]

\* obj[key] = value
Assign(f, k, v) ==
  IF HasKey(f, k)
  THEN [i \in 1..Len(f) |-> IF f[i].k = k THEN Pair(k, v) ELSE f[i]]
  ELSE Append(f, Pair(k, v))

\* a variant of Remove that leaves the key in place
RemoveNothing(f, k) == f

\* delete obj[key]
Remove(f, k) == SelectSeq(f, LAMBDA p : p.k # k)

\* Object.keys(x).length === 0 for the data slot (object or array)
IsEmptyData(d) == IF d.t = "arr" THEN Len(d.items) = 0 ELSE Len(d.flds) = 0

\* typeof v === "object" && v !== null && !Array.isArray(v)
IsPlainObject(v) == v.t = "obj" \/ (v.t = "lit" /\ TypeOfLit(v.lit) = "object")

FieldsOf(v) == IF v.t = "obj" THEN v.flds ELSE <<>>

\* ----------------------------------------------------------------- schemas
\* SchemaDefinition = ObjectSchema | ArraySchema.  An ArraySchema is
\* { __arrayType: tag } or { __arrayType: ObjectSchema }.
ObjSchema(f)    == [arr |-> FALSE, flds |-> f,    elem |-> ""]
ArrSchema(tag)  == [arr |-> TRUE,  flds |-> <<>>, elem |-> tag]
ArrObjSchema(f) == [arr |-> TRUE,  flds |-> f,    elem |-> "__object"]

isArraySchema(s)  == s.arr
isObjectSchema(s) == ~s.arr

\* Object.keys(schema).length
SchemaKeyCount(s) == IF s.arr THEN 1 ELSE Len(s.flds)

inferPrimitiveType(l) ==
  IF TypeOfLit(l) = "string" THEN (IF HasAt(l) THEN "email" ELSE "string")
  ELSE IF TypeOfLit(l) = "number" THEN "number"
  ELSE IF TypeOfLit(l) = "boolean" THEN "boolean"
  ELSE "any"

\* a variant of InferFields without the array and object branches: every
\* field gets the primitive tag of its value
InferFieldsPrimitiveOnly(f) ==
  [i \in 1..Len(f) |-> Pair(f[i].k, inferPrimitiveType(f[i].v))]

\* the object branch of inferSchemaFromValue
InferFields(f) ==
  [i \in 1..Len(f) |->
     Pair(f[i].k,
          IF TypeOfLit(f[i].v) = "array" THEN "array"
          ELSE IF TypeOfLit(f[i].v) = "object" THEN "object"
          ELSE inferPrimitiveType(f[i].v))]

\* a variant of inferSchemaFromValue that looks at the last element of an
\* array instead of the first
inferSchemaFromLast(v) ==
  IF v.t = "arr"
  THEN IF Len(v.items) = 0 THEN ArrSchema("any")
       ELSE LET last == v.items[Len(v.items)]
            IN IF IsPlainObject(last)
               THEN ArrObjSchema(InferFields(FieldsOf(last)))
               ELSE IF last.t = "lit"
                    THEN ArrSchema(inferPrimitiveType(last.lit))
                    ELSE ArrSchema("any")
  ELSE IF IsPlainObject(v) THEN ObjSchema(InferFields(FieldsOf(v)))
  ELSE ObjSchema(<<>>)

inferSchemaFromValue(v) ==
  IF v.t = "arr"
  THEN IF Len(v.items) = 0 THEN ArrSchema("any")
       ELSE LET first == v.items[1]
            IN IF IsPlainObject(first)
               THEN ArrObjSchema(InferFields(FieldsOf(first)))
               ELSE IF first.t = "lit"
                    THEN ArrSchema(inferPrimitiveType(first.lit))
                    ELSE ArrSchema("any")
  ELSE IF IsPlainObject(v) THEN ObjSchema(InferFields(FieldsOf(v)))
  ELSE ObjSchema(<<>>)

\* --------------------------------------------------------------- validator
\* The compiled zod schema: null, z.object(shape), or <element>.array().
NoZod == [present |-> FALSE, arr |-> FALSE, shape |-> <<>>, elem |-> ""]

buildZodSchema(s) ==
  IF s.arr
  THEN IF s.elem = "__object"
       THEN [present |-> TRUE, arr |-> TRUE, shape |-> s.flds, elem |-> "__object"]
       ELSE [present |-> TRUE, arr |-> TRUE, shape |-> <<>>,
             elem |-> IF s.elem \in {"string", "number", "boolean", "email"}
                      THEN s.elem ELSE "any"]
  ELSE [present |-> TRUE, arr |-> FALSE, shape |-> s.flds, elem |-> ""]

\* one key of z.object(shape): the check applied to input[key], which is
\* "undefined" when the key is missing
CheckTag(tag, l) ==
  CASE tag = "string"  -> TypeOfLit(l) = "string"
    [] tag = "number"  -> TypeOfLit(l) = "number"
    [] tag = "boolean" -> TypeOfLit(l) = "boolean"
    [] tag = "email"   -> TypeOfLit(l) = "string" /\ IsEmail(l)
    [] tag = "array"   -> TypeOfLit(l) = "array"
    [] tag = "object"  -> TypeOfLit(l) = "object"
    [] OTHER           -> TRUE

\* a variant of ShapeOk that checks only the keys the input carries (the
\* per-key pick of the earlier snapshot, or a .partial() object)
ShapeOkPresentOnly(shape, f) ==
  \A i \in 1..Len(shape) :
    HasKey(f, shape[i].k) => CheckTag(shape[i].v, Lookup(f, shape[i].k))

ShapeOk(shape, f) ==
  \A i \in 1..Len(shape) : CheckTag(shape[i].v, Lookup(f, shape[i].k))

\* a variant of Strip that keeps unknown keys, like z.object().passthrough()
StripPassthrough(shape, f) == f

\* z.object() drops unknown keys; the output lists the shape's keys, in the
\* shape's order, that the input carries
Strip(shape, f) ==
  LET kept == SelectSeq(shape, LAMBDA p : HasKey(f, p.k))
  IN [i \in 1..Len(kept) |-> Pair(kept[i].k, Lookup(f, kept[i].k))]

\* a variant of ObjectParseOk that checks only that the input is an object
ObjectParseOkShapeless(shape, v) == IsPlainObject(v)

ObjectParseOk(shape, v) == IsPlainObject(v) /\ ShapeOk(shape, FieldsOf(v))

\* a variant of ElemOk that accepts every element (only the container is
\* checked to be an array)
ElemOkAnything(zod, item) == TRUE

ElemOk(zod, item) ==
  IF zod.elem = "__object" THEN ObjectParseOk(zod.shape, item)
  ELSE IF zod.elem = "any" THEN TRUE
  ELSE item.t = "lit" /\ CheckTag(zod.elem, item.lit)

\* zodSchema.parse(v): ok = it does not throw, out = the value it returns
ZodParse(zod, v) ==
  IF zod.arr
  THEN [ok  |-> v.t = "arr" /\ \A i \in 1..Len(v.items) : ElemOk(zod, v.items[i]),
        out |-> IF v.t = "arr" /\ zod.elem = "__object"
                THEN Arr([i \in 1..Len(v.items) |->
                            Obj(Strip(zod.shape, FieldsOf(v.items[i])))])
                ELSE v]
  ELSE [ok  |-> ObjectParseOk(zod.shape, v),
        out |-> Obj(Strip(zod.shape, FieldsOf(v)))]

\* ------------------------------------------------------------------- state
VARIABLES
  data,        \* this.data
  rawSchema,   \* this.rawSchema
  zodSchema,   \* this.zodSchema
  options,     \* this.options
  auditLog,    \* this.auditLog
  stData,      \* storage "data" (absent reads as {})
  stSchema,    \* storage "__schema__" (absent reads as {})
  stOptions,   \* storage "__options__"
  stAudit,     \* storage "__audit__" (absent reads as [])
  now,         \* Date.now()
  schemaFrom,  \* which call last installed a schema, setSchema included (history)
  calls,       \* how many calls were made (history)
  result       \* the last call, its arguments and how it ended

vars == <<data, rawSchema, zodSchema, options, auditLog,
          stData, stSchema, stOptions, stAudit, now, schemaFrom, calls, result>>

DefaultOptions == [autoStrip |-> FALSE, readOnly |-> FALSE]
NoStoredOptions == [present |-> FALSE, autoStrip |-> FALSE, readOnly |-> FALSE]

Cur ==
  [data |-> data, rawSchema |-> rawSchema, zodSchema |-> zodSchema,
   options |-> options, auditLog |-> auditLog,
   stData |-> stData, stSchema |-> stSchema, stOptions |-> stOptions,
   stAudit |-> stAudit]

Commit(M) ==
  /\ data' = M.data
  /\ rawSchema' = M.rawSchema
  /\ zodSchema' = M.zodSchema
  /\ options' = M.options
  /\ auditLog' = M.auditLog
  /\ stData' = M.stData
  /\ stSchema' = M.stSchema
  /\ stOptions' = M.stOptions
  /\ stAudit' = M.stAudit

\* ----------------------------------------------------------------- helpers
\* a variant of load that takes a stored empty document for the empty
\* object, whatever its shape
loadEmptyAsObject(M) ==
  LET reloadSchema == SchemaKeyCount(M.rawSchema) = 0
  IN [M EXCEPT
        !.data = IF IsEmptyData(M.data)
                 THEN (IF IsEmptyData(M.stData) THEN Obj(<<>>) ELSE M.stData)
                 ELSE M.data,
        !.rawSchema = IF reloadSchema THEN M.stSchema ELSE M.rawSchema,
        !.zodSchema = IF reloadSchema /\ SchemaKeyCount(M.stSchema) > 0
                      THEN buildZodSchema(M.stSchema) ELSE M.zodSchema,
        !.options = IF M.stOptions.present
                    THEN [autoStrip |-> M.stOptions.autoStrip,
                          readOnly |-> M.stOptions.readOnly]
                    ELSE M.options,
        !.auditLog = M.stAudit]

load(M) ==
  LET reloadSchema == SchemaKeyCount(M.rawSchema) = 0
  IN [M EXCEPT
        !.data = IF IsEmptyData(M.data) THEN M.stData ELSE M.data,
        !.rawSchema = IF reloadSchema THEN M.stSchema ELSE M.rawSchema,
        !.zodSchema = IF reloadSchema /\ SchemaKeyCount(M.stSchema) > 0
                      THEN buildZodSchema(M.stSchema) ELSE M.zodSchema,
        !.options = IF M.stOptions.present
                    THEN [autoStrip |-> M.stOptions.autoStrip,
                          readOnly |-> M.stOptions.readOnly]
                    ELSE M.options,
        !.auditLog = M.stAudit]

save(M) == [M EXCEPT !.stData = M.data]

\* a variant of Slice that never truncates
SliceNothing(s, n) == s

\* Array.prototype.slice(0, n)
Slice(s, n) == IF Len(s) <= n THEN s ELSE SubSeq(s, 1, n)

Entry(action, keys, t) == [timestamp |-> t, action |-> action, keys |-> keys]

\* a variant of logAudit that adds the entry at the end (push for unshift)
logAuditAtEnd(M, action, keys, t) ==
  LET log == M.auditLog \o <<Entry(action, keys, t)>>
  IN [M EXCEPT !.auditLog = log, !.stAudit = Slice(log, AuditCap)]

logAudit(M, action, keys, t) ==
  LET log == <<Entry(action, keys, t)>> \o M.auditLog
  IN [M EXCEPT !.auditLog = log, !.stAudit = Slice(log, AuditCap)]

\* a variant of setSchemaIn that keeps the validator compiled before
setSchemaInStale(M, s) ==
  LET L == IF IsEmptyData(M.data) THEN [M EXCEPT !.data = M.stData] ELSE M
  IN [L EXCEPT !.rawSchema = s, !.stSchema = s, !.auditLog = M.stAudit,
               !.options = IF M.stOptions.present
                           THEN [autoStrip |-> M.stOptions.autoStrip,
                                 readOnly |-> M.stOptions.readOnly]
                           ELSE M.options]

setSchemaIn(M, s) ==
  LET L == load(M)
  IN [L EXCEPT !.rawSchema = s, !.zodSchema = buildZodSchema(s), !.stSchema = s]

\* how a call ended: the state it left, its outcome, whether it appended an
\* audit entry and whether it installed an inferred schema
Res(M, out, logged, inferred) ==
  [m |-> M, out |-> out, logged |-> logged, inferred |-> inferred]

\* -------------------------------------------------------------- operations
setOp(M, key, value, t) ==
  LET L == load(M)
  IN IF L.options.readOnly THEN Res(L, "ReadOnly", FALSE, FALSE)
     ELSE IF L.data.t = "arr" THEN Res(L, "Mode", FALSE, FALSE)
     ELSE
       LET infer == ~L.zodSchema.present
           L2 == IF infer
                 THEN setSchemaIn(L, inferSchemaFromValue(Obj(<<Pair(key, value)>>)))
                 ELSE L
           L3 == [L2 EXCEPT !.data = Obj(Assign(FieldsOf(L2.data), key, value))]
       IN IF L3.zodSchema.present /\ ~ZodParse(L3.zodSchema, L3.data).ok
          THEN Res(L3, "Validation", FALSE, infer)
          ELSE Res(logAudit(save(L3), "set", <<key>>, t), "ok", TRUE, infer)

\* a variant of StoreAll that merges like Object.assign(this.data, obj)
StoreAllMerging(old, new) ==
  IF old.t = "obj" /\ new.t = "obj"
  THEN LET extra == SelectSeq(new.flds, LAMBDA p : ~HasKey(old.flds, p.k))
       IN Obj([i \in 1..Len(old.flds) |->
                 IF HasKey(new.flds, old.flds[i].k)
                 THEN Pair(old.flds[i].k, Lookup(new.flds, old.flds[i].k))
                 ELSE old.flds[i]] \o extra)
  ELSE new

\* this.data = objOrArr
StoreAll(old, new) == new

setAllOp(M, value, t) ==
  LET L == load(M)
      infer == ~L.zodSchema.present
      L2 == IF infer THEN setSchemaIn(L, inferSchemaFromValue(value)) ELSE L
      isArr == value.t = "arr"
      zod == L2.zodSchema
      \* the three validation branches, in the order of the code
      b1 == isArr /\ isArraySchema(L2.rawSchema)
      b2 == ~b1 /\ ~isArr /\ zod.present /\ isObjectSchema(L2.rawSchema)
      b3 == ~b1 /\ ~b2 /\ isArr /\ zod.present /\ isObjectSchema(L2.rawSchema)
      crash == b1 /\ ~zod.present
      ok == IF b1 THEN ZodParse(zod, value).ok
            ELSE IF b2 THEN ZodParse(zod, value).ok
            ELSE IF b3 THEN \A i \in 1..Len(value.items) : ZodParse(zod, value.items[i]).ok
            ELSE TRUE
      stored == IF b2 THEN ZodParse(zod, value).out ELSE value
      L3 == [L2 EXCEPT !.data = StoreAll(L2.data, stored)]
  IN IF crash THEN Res(L2, "TypeError", FALSE, infer)
     ELSE IF ~ok THEN Res(L2, "Validation", FALSE, infer)
     ELSE Res(logAudit(save(L3), "setAll",
                       IF isArr THEN <<>> ELSE KeysOf(stored.flds), t),
              "ok", TRUE, infer)

pushOp(M, item, t) ==
  LET L == load(M)
      L1 == IF L.data.t # "arr" THEN [L EXCEPT !.data = Arr(<<>>)] ELSE L
      infer == ~L1.zodSchema.present
      L2 == IF infer THEN setSchemaIn(L1, inferSchemaFromValue(Arr(<<item>>))) ELSE L1
      zod == L2.zodSchema
      b1 == isArraySchema(L2.rawSchema)
      b2 == ~b1 /\ zod.present /\ isObjectSchema(L2.rawSchema)
      crash == b1 /\ ~zod.present
      ok == IF b1 THEN ZodParse(zod, Arr(<<item>>)).ok
            ELSE IF b2 THEN ZodParse(zod, item).ok
            ELSE TRUE
      L3 == [L2 EXCEPT !.data = Arr(Append(L2.data.items, item))]
  IN IF crash THEN Res(L2, "TypeError", FALSE, infer)
     ELSE IF ~ok THEN Res(L2, "Validation", FALSE, infer)
     \* (this.data as unknown[]).push on a plain object: push is not a function
     ELSE IF L2.data.t # "arr" THEN Res(L2, "TypeError", FALSE, infer)
     ELSE Res(logAudit(save(L3), "push", <<>>, t), "ok", TRUE, infer)

deleteOp(M, key, t) ==
  LET L == load(M)
  IN IF L.data.t # "arr"
     THEN Res(logAudit(save([L EXCEPT !.data = Obj(Remove(L.data.flds, key))]),
                       "delete", <<key>>, t),
              "ok", TRUE, FALSE)
     ELSE Res(L, "ok", FALSE, FALSE)

clearOp(M, t) ==
  Res(logAudit(save([M EXCEPT !.data = Obj(<<>>)]), "clear", <<>>, t),
      "ok", TRUE, FALSE)

setSchemaOp(M, s) == Res(setSchemaIn(M, s), "ok", FALSE, FALSE)

\* a variant of MergeFlag that replaces the whole policy: a flag that is not
\* given falls back to false
MergeFlagReplacing(old, new) == new = "T"

\* Object.assign(this.options, opts): a field of opts is "T", "F" or "-" (absent)
MergeFlag(old, new) == IF new = "-" THEN old ELSE new = "T"

\* a variant of setOptionsOp that is refused on a read-only store, as set is
setOptionsOpGated(M, opts) ==
  LET L == load(M)
      merged == [autoStrip |-> MergeFlag(L.options.autoStrip, opts.autoStrip),
                 readOnly |-> MergeFlag(L.options.readOnly, opts.readOnly)]
  IN IF L.options.readOnly THEN Res(L, "ReadOnly", FALSE, FALSE)
     ELSE Res([L EXCEPT !.options = merged,
                        !.stOptions = [present |-> TRUE,
                                       autoStrip |-> merged.autoStrip,
                                       readOnly |-> merged.readOnly]],
              "ok", FALSE, FALSE)

setOptionsOp(M, opts) ==
  LET L == load(M)
      merged == [autoStrip |-> MergeFlag(L.options.autoStrip, opts.autoStrip),
                 readOnly |-> MergeFlag(L.options.readOnly, opts.readOnly)]
  IN Res([L EXCEPT !.options = merged,
                   !.stOptions = [present |-> TRUE,
                                  autoStrip |-> merged.autoStrip,
                                  readOnly |-> merged.readOnly]],
         "ok", FALSE, FALSE)

clearAuditLogOp(M) ==
  Res([M EXCEPT !.auditLog = <<>>, !.stAudit = <<>>], "ok", FALSE, FALSE)

\* a variant of readOp that records the read in the trail
readOpAudited(M) ==
  LET L == load(M)
      log == <<Entry("read", <<>>, 0)>> \o L.auditLog
  IN Res([L EXCEPT !.auditLog = log, !.stAudit = Slice(log, AuditCap)],
         "ok", FALSE, FALSE)

\* a variant of readOp that writes the hydrated document back to storage
readOpSaving(M) ==
  LET L == load(M) IN Res([L EXCEPT !.stData = L.data], "ok", FALSE, FALSE)

\* get, getAll, keys, has, getSchema, getOptions, getAuditLog: load, then
\* return a field of the hydrated state
readOp(M) == Res(load(M), "ok", FALSE, FALSE)

\* ------------------------------------------------------------------ inputs
Keys == {"a", "b"}

\* values passed to set(key, value)
SetVals == {"x", "y", "n1"}

\* objects passed to setAll: every choice of a value or no field for a and b
FieldChoices == {"-", "x", "y", "n1"}

MkObj(va, vb) ==
  Obj((IF va = "-" THEN <<>> ELSE <<Pair("a", va)>>) \o
      (IF vb = "-" THEN <<>> ELSE <<Pair("b", vb)>>))

SetAllObjs == {MkObj(va, vb) : va \in FieldChoices, vb \in {"-", "x", "n1"}}

\* arrays passed to setAll and items passed to push
PushItems == {Lit("n1"), Lit("x"), Obj(<<Pair("a", "x")>>)}

SetAllArrs == {Arr(<<>>), Arr(<<Lit("n1")>>), Arr(<<Lit("n1"), Lit("x")>>),
               Arr(<<Obj(<<Pair("a", "x")>>)>>)}

\* schemas passed to setSchema
SchemaInputs ==
  {ObjSchema(<<>>),
   ObjSchema(<<Pair("a", "string")>>),
   ObjSchema(<<Pair("b", "number"), Pair("a", "string")>>),
   ArrSchema("number")}

\* partial options passed to setOptions
OptionInputs ==
  {[readOnly |-> "T", autoStrip |-> "-"], [readOnly |-> "F", autoStrip |-> "-"],
   [readOnly |-> "-", autoStrip |-> "T"], [readOnly |-> "-", autoStrip |-> "F"],
   [readOnly |-> "F", autoStrip |-> "T"]}

NoOpts == [readOnly |-> "-", autoStrip |-> "-"]
NoArg == Lit("undefined")

\* what get / keys / has hand back, computed on the hydrated state
getRet(M, key) == IF M.data.t # "arr" THEN Lookup(M.data.flds, key) ELSE "undefined"

\* a variant of keysRet without the array test: Object.keys of an array is
\* the list of its indices
keysRetNoModeTest(M) ==
  IF M.data.t # "arr" THEN KeysOf(M.data.flds)
  ELSE [i \in 1..Len(M.data.items) |-> ToString(i - 1)]

keysRet(M) == IF M.data.t # "arr" THEN KeysOf(M.data.flds) ELSE <<>>

hasRet(M, key) == IF M.data.t # "arr" THEN HasKey(M.data.flds, key) ELSE FALSE

\* the value a call returns: a field value for get, a key list for keys, a
\* flag for has (the other methods return a field of the state, or nothing)
NoRet == [value |-> "undefined", keys |-> <<>>, has |-> FALSE]

Returned(op, key, M) ==
  CASE op = "get"  -> [NoRet EXCEPT !.value = getRet(M, key)]
    [] op = "keys" -> [NoRet EXCEPT !.keys = keysRet(M)]
    [] op = "has"  -> [NoRet EXCEPT !.has = hasRet(M, key)]
    [] OTHER       -> NoRet

\* the argument recorded for the calls that take no schema
NoSchemaArg == ObjSchema(<<>>)

Call(op, key, arg, opts, schema, out, ret) ==
  [op |-> op, key |-> key, arg |-> arg, opts |-> opts, schema |-> schema,
   out |-> out, ret |-> ret]

\* the clock starts where the oldest prior entries end
StartTime == AuditCap

FinishCall(op, key, arg, opts, schema, r) ==
  /\ calls' = calls + 1
  /\ Commit(r.m)
  /\ now' = IF r.logged THEN now + 1 ELSE now
  /\ schemaFrom' = IF r.inferred \/ op = "setSchema" THEN op ELSE schemaFrom
  /\ result' = Call(op, key, arg, opts, schema, r.out, Returned(op, key, r.m))

Finish(op, key, arg, opts, r) == FinishCall(op, key, arg, opts, NoSchemaArg, r)

\* ----------------------------------------------------------------- actions
Set ==
  /\ calls < MaxCalls
  /\ \E k \in Keys, v \in SetVals :
       Finish("set", k, Lit(v), NoOpts, setOp(Cur, k, v, now))

SetAllObject ==
  /\ calls < MaxCalls
  /\ \E o \in SetAllObjs :
       Finish("setAll", "", o, NoOpts, setAllOp(Cur, o, now))

SetAllArray ==
  /\ calls < MaxCalls
  /\ \E a \in SetAllArrs :
       Finish("setAll", "", a, NoOpts, setAllOp(Cur, a, now))

Push ==
  /\ calls < MaxCalls
  /\ \E i \in PushItems :
       Finish("push", "", i, NoOpts, pushOp(Cur, i, now))

Delete ==
  /\ calls < MaxCalls
  /\ \E k \in Keys :
       Finish("delete", k, NoArg, NoOpts, deleteOp(Cur, k, now))

Clear ==
  /\ calls < MaxCalls
  /\ Finish("clear", "", NoArg, NoOpts, clearOp(Cur, now))

SetSchema ==
  /\ calls < MaxCalls
  /\ \E s \in SchemaInputs :
       FinishCall("setSchema", "", NoArg, NoOpts, s, setSchemaOp(Cur, s))

SetOptions ==
  /\ calls < MaxCalls
  /\ \E o \in OptionInputs :
       Finish("setOptions", "", NoArg, o, setOptionsOp(Cur, o))

ClearAuditLog ==
  /\ calls < MaxCalls
  /\ Finish("clearAuditLog", "", NoArg, NoOpts, clearAuditLogOp(Cur))

Get ==
  /\ calls < MaxCalls
  /\ \E k \in Keys : Finish("get", k, NoArg, NoOpts, readOp(Cur))

GetAll ==
  /\ calls < MaxCalls
  /\ Finish("getAll", "", NoArg, NoOpts, readOp(Cur))

KeysCall ==
  /\ calls < MaxCalls
  /\ Finish("keys", "", NoArg, NoOpts, readOp(Cur))

Has ==
  /\ calls < MaxCalls
  /\ \E k \in Keys : Finish("has", k, NoArg, NoOpts, readOp(Cur))

GetSchema ==
  /\ calls < MaxCalls
  /\ Finish("getSchema", "", NoArg, NoOpts, readOp(Cur))

GetOptions ==
  /\ calls < MaxCalls
  /\ Finish("getOptions", "", NoArg, NoOpts, readOp(Cur))

GetAuditLog ==
  /\ calls < MaxCalls
  /\ Finish("getAuditLog", "", NoArg, NoOpts, readOp(Cur))

\* the runtime evicts the object: fields return to their initialisers, the
\* storage stays
Restart ==
  /\ calls < MaxCalls
  /\ calls' = calls + 1
  /\ data' = Obj(<<>>)
  /\ rawSchema' = ObjSchema(<<>>)
  /\ zodSchema' = NoZod
  /\ options' = DefaultOptions
  /\ auditLog' = <<>>
  /\ result' = Call("restart", "", NoArg, NoOpts, NoSchemaArg, "ok", NoRet)
  /\ UNCHANGED <<stData, stSchema, stOptions, stAudit, now, schemaFrom>>

\* ---------------------------------------------------------- specifications
InitMemory ==
  /\ data = Obj(<<>>)
  /\ rawSchema = ObjSchema(<<>>)
  /\ zodSchema = NoZod
  /\ options = DefaultOptions
  /\ auditLog = <<>>
  /\ result = Call("new", "", NoArg, NoOpts, NoSchemaArg, "ok", NoRet)

\* a store nobody has written to
Init ==
  /\ InitMemory
  /\ stData = Obj(<<>>)
  /\ stSchema = ObjSchema(<<>>)
  /\ stOptions = NoStoredOptions
  /\ stAudit = <<>>
  /\ now = StartTime
  /\ schemaFrom = "none"
  /\ calls = 0

\* the trail AuditCap - 1 calls of clear() leave behind, newest first
ClearTrail(n) == [i \in 1..n |-> Entry("clear", <<>>, StartTime - i)]

\* a store whose trail is one entry short of the cap: clear() was called
\* AuditCap - 1 times and the object was evicted afterwards
InitAged ==
  /\ InitMemory
  /\ stData = Obj(<<>>)
  /\ stSchema = ObjSchema(<<>>)
  /\ stOptions = NoStoredOptions
  /\ stAudit = ClearTrail(AuditCap - 1)
  /\ now = StartTime
  /\ schemaFrom = "none"
  /\ calls = 0

Next ==
  \/ Set \/ SetAllObject \/ SetAllArray \/ Push \/ Delete \/ Clear
  \/ SetSchema \/ SetOptions \/ ClearAuditLog
  \/ Get \/ GetAll \/ KeysCall \/ Has \/ GetSchema \/ GetOptions \/ GetAuditLog
  \/ Restart

Spec == Init /\ [][Next]_vars

SpecAged == InitAged /\ [][Next]_vars

\* a store that holds an array of objects under the empty object descriptor:
\* setSchema({}) and setAll([{a: "x"}]) were called and the object was
\* evicted afterwards
InitEvicted ==
  /\ InitMemory
  /\ stData = Arr(<<Obj(<<Pair("a", "x")>>)>>)
  /\ stSchema = ObjSchema(<<>>)
  /\ stOptions = NoStoredOptions
  /\ stAudit = <<Entry("setAll", <<>>, StartTime - 1)>>
  /\ now = StartTime
  /\ schemaFrom = "setSchema"
  /\ calls = 0

SpecEvicted == InitEvicted /\ [][Next]_vars

\* ------------------------------------------- a stop between the two writes
\* a variant of crashBetweenWrites for a call that writes the trail first
\* and the document second
crashBetweenWritesAuditFirst(M, r) ==
  [stData |-> M.stData, stSchema |-> r.m.stSchema,
   stOptions |-> r.m.stOptions, stAudit |-> r.m.stAudit]

\* A successful write awaits save() and then logAudit(), each of which awaits
\* one storage put.  What storage holds if the object stops between the two:
\* the document the call has put (and the descriptor, if it inferred one),
\* and the trail as it was.  M is the state before the call, r its result.
crashBetweenWrites(M, r) ==
  [stData |-> r.m.stData, stSchema |-> r.m.stSchema,
   stOptions |-> r.m.stOptions, stAudit |-> M.stAudit]

\* the call op stops between its two writes; the object is evicted
Crash(op, key, arg, r) ==
  LET st == crashBetweenWrites(Cur, r)
  IN /\ r.logged
     /\ calls' = calls + 1
     /\ data' = Obj(<<>>)
     /\ rawSchema' = ObjSchema(<<>>)
     /\ zodSchema' = NoZod
     /\ options' = DefaultOptions
     /\ auditLog' = <<>>
     /\ stData' = st.stData
     /\ stSchema' = st.stSchema
     /\ stOptions' = st.stOptions
     /\ stAudit' = st.stAudit
     /\ now' = now
     /\ schemaFrom' = IF r.inferred THEN op ELSE schemaFrom
     /\ result' = Call(op, key, arg, NoOpts, NoSchemaArg, "Crashed", NoRet)

CrashInSet ==
  /\ calls < MaxCalls
  /\ \E k \in Keys, v \in SetVals : Crash("set", k, Lit(v), setOp(Cur, k, v, now))

CrashInSetAll ==
  /\ calls < MaxCalls
  /\ \E o \in SetAllObjs \cup SetAllArrs : Crash("setAll", "", o, setAllOp(Cur, o, now))

CrashInPush ==
  /\ calls < MaxCalls
  /\ \E i \in PushItems : Crash("push", "", i, pushOp(Cur, i, now))

CrashInDelete ==
  /\ calls < MaxCalls
  /\ \E k \in Keys : Crash("delete", k, NoArg, deleteOp(Cur, k, now))

CrashInClear ==
  /\ calls < MaxCalls
  /\ Crash("clear", "", NoArg, clearOp(Cur, now))

NextCrash ==
  \/ Set \/ SetAllObject \/ SetAllArray \/ Push \/ Delete \/ Clear
  \/ GetAll \/ GetAuditLog \/ Restart
  \/ CrashInSet \/ CrashInSetAll \/ CrashInPush \/ CrashInDelete \/ CrashInClear

\* writes, reads and restarts, where a write may stop between its two puts
SpecCrash == Init /\ [][NextCrash]_vars

\* ---------------------------------------------- first writes of any value
\* one literal of every kind typeof / Array.isArray tell apart
RichLits == {"x", "@", "j@x.io", "n1", "true", "[]", "{}", "null"}

RichObjs == {MkObj(va, vb) : va \in RichLits \cup {"-"}, vb \in {"-", "n1", "{}"}}

\* array elements: primitives, objects and a nested array
RichItems ==
  {Lit(l) : l \in {"x", "@", "n1", "true", "null"}} \cup
  {Obj(<<Pair("a", "x")>>), Obj(<<Pair("a", "@"), Pair("b", "[]")>>),
   Arr(<<Lit("n1")>>)}

RichArrs ==
  {Arr(<<>>)} \cup {Arr(<<i>>) : i \in RichItems}
             \cup {Arr(<<i, j>>) : i \in RichItems, j \in RichItems}

SetRich ==
  /\ calls < MaxInferCalls
  /\ \E k \in Keys, v \in RichLits :
       Finish("set", k, Lit(v), NoOpts, setOp(Cur, k, v, now))

SetAllObjectRich ==
  /\ calls < MaxInferCalls
  /\ \E o \in RichObjs :
       Finish("setAll", "", o, NoOpts, setAllOp(Cur, o, now))

SetAllArrayRich ==
  /\ calls < MaxInferCalls
  /\ \E a \in RichArrs :
       Finish("setAll", "", a, NoOpts, setAllOp(Cur, a, now))

PushRich ==
  /\ calls < MaxInferCalls
  /\ \E i \in RichItems :
       Finish("push", "", i, NoOpts, pushOp(Cur, i, now))

RestartEarly == calls < MaxInferCalls /\ Restart

NextInfer ==
  SetRich \/ SetAllObjectRich \/ SetAllArrayRich \/ PushRich \/ RestartEarly

\* writes of values of every kind to a store nobody has written to
SpecInfer == Init /\ [][NextInfer]_vars

\* ------------------------------------------------------------ observations
\* what getAll() would return now
View == load(Cur).data

\* the policy a call sees after hydration
Policy == load(Cur).options

\* the descriptor and validator a call sees after hydration
Descriptor == load(Cur).rawSchema

Validator == load(Cur).zodSchema

ReadOps == {"get", "getAll", "keys", "has", "getSchema", "getOptions", "getAuditLog"}

\* the step is a call of one of the methods in ops
Called(ops) == calls' = calls + 1 /\ result'.op \in ops

\* every field the descriptor declares is in f with a value matching its tag
CarriesDeclared(shape, f) ==
  \A i \in 1..Len(shape) :
    HasKey(f, shape[i].k) /\ CheckTag(shape[i].v, Lookup(f, shape[i].k))

HasUndeclared(shape, f) == \E i \in 1..Len(f) : ~HasKey(shape, f[i].k)

\* ------------------------------------------------------------------ claims

\* C1: once setOptions has stored readOnly = true, every set, setAll and push
\* fails with the read-only error and the Document, in memory and in
\* storage, is what it was before the call.
C1_ReadOnlyBlocksWrites ==
  [][(stOptions.present /\ stOptions.readOnly /\ Called({"set", "setAll", "push"}))
       => (result'.out = "ReadOnly" /\ View' = View /\ stData' = stData)]_vars

\* C2: a set, setAll or push that fails validation leaves the Document as it
\* was, in memory (what getAll returns) and in storage.
C2_FailedValidationKeepsDocument ==
  [][(Called({"set", "setAll", "push"}) /\ result'.out = "Validation")
       => (View' = View /\ stData' = stData)]_vars

\* C3: with an object descriptor installed, set(key, value) with a value that
\* does not match the tag declared for key is rejected.
C3_SetRejectsMismatch ==
  [][(/\ Called({"set"})
      /\ isObjectSchema(Descriptor)
      /\ HasKey(Descriptor.flds, result'.key)
      /\ ~CheckTag(Lookup(Descriptor.flds, result'.key), result'.arg.lit))
       => result'.out # "ok"]_vars

\* a set was rejected by the validator of a descriptor that a setAll inferred
C3_Witness ==
  /\ result.op = "set" /\ result.out = "Validation"
  /\ schemaFrom = "setAll"
  /\ isObjectSchema(rawSchema)
  /\ HasKey(rawSchema.flds, result.key)
  /\ ~CheckTag(Lookup(rawSchema.flds, result.key), result.arg.lit)

\* the keys the audit entry of the call just made should carry
ExpectedKeys ==
  IF result'.op \in {"set", "delete"} THEN <<result'.key>>
  ELSE IF result'.op = "setAll" /\ result'.arg.t = "obj" THEN KeysOf(stData'.flds)
  ELSE <<>>

\* the persisted trail is one new entry for the call, then the previous trail,
\* cut at the cap
OneEntryAdded ==
  /\ Len(stAudit') >= 1
  /\ stAudit'[1].action = result'.op
  /\ stAudit'[1].keys = ExpectedKeys
  /\ stAudit'[1].timestamp = now
  /\ stAudit' = Slice(<<stAudit'[1]>> \o stAudit, AuditCap)

\* C4 as stated: every set, setAll, push or delete that returns without an
\* error adds exactly one entry at the front of the trail.
C4_EverySuccessfulCallLogged ==
  [][(Called({"set", "setAll", "push", "delete"}) /\ result'.out = "ok")
       => OneEntryAdded]_vars

\* C4 amended: every successful set, setAll or push, and every delete on a
\* store whose Document is an object, adds exactly one entry at the front of
\* the trail, with the call's action name and keys, and keeps the previous
\* entries in order up to the cap.
C4_SuccessfulWriteLogged ==
  [][(/\ Called({"set", "setAll", "push", "delete"})
      /\ result'.out = "ok"
      /\ (result'.op = "delete" => View.t = "obj"))
       => OneEntryAdded]_vars

\* an object was stored by setAll on a full trail: its entry is at the
\* front and the oldest entry has been evicted
C4_Witness ==
  /\ result.op = "setAll" /\ result.out = "ok" /\ result.arg.t = "obj"
  /\ Len(result.arg.flds) = 2
  /\ Len(stAudit) = AuditCap
  /\ stAudit[1].action = "setAll" /\ stAudit[1].keys = <<"a", "b">>
  /\ stAudit[AuditCap].timestamp = 2

\* C5: on a store never written to, set(k, v) then setAll(obj) with k not in
\* obj both succeed and the trail is the setAll entry (keys = the fields of
\* obj) followed by the set entry (keys = [k]).
C5_SetThenSetAllTrail ==
  [][(/\ calls = 1 /\ result.op = "set" /\ result.out = "ok"
      /\ Called({"setAll"})
      /\ result'.arg.t = "obj"
      /\ ~HasKey(result'.arg.flds, result.key))
       => (/\ result'.out = "ok"
           /\ Len(stAudit') = 2
           /\ stAudit'[1].action = "setAll"
           /\ stAudit'[1].keys = KeysOf(result'.arg.flds)
           /\ stAudit'[2].action = "set"
           /\ stAudit'[2].keys = <<result.key>>)]_vars

\* C6: the persisted trail, and what getAuditLog returns, never hold more
\* than AuditCap entries, and the entries of the previous trail that a call
\* keeps are its newest ones, in order, after the entries the call added.
C6_TrailCapped ==
  [][LET added == now' - now
         kept == Len(stAudit') - added
     IN /\ Len(stAudit') <= AuditCap
        /\ (result'.op = "getAuditLog" =>
              auditLog' = stAudit' /\ Len(auditLog') <= AuditCap)
        /\ kept >= 0 /\ kept <= Len(stAudit)
        /\ SubSeq(stAudit', added + 1, Len(stAudit')) = SubSeq(stAudit, 1, kept)
        /\ (added = 1 => stAudit'[1].timestamp = now)]_vars

\* the cap was exceeded: the trail is full, its two newest entries were added
\* in this behaviour and the oldest entry of the initial trail is gone
C6_Witness ==
  /\ Len(stAudit) = AuditCap
  /\ stAudit[1].timestamp = StartTime + 1
  /\ stAudit[2].timestamp = StartTime
  /\ stAudit[AuditCap].timestamp = 2

\* C7: reads, and writes that fail with a validation, read-only or mode
\* error, leave the trail as it was.
C7_ReadsAndFailuresNotLogged ==
  [][(\/ Called(ReadOps)
      \/ (/\ Called({"set", "setAll", "push", "delete", "clear"})
          /\ result'.out \in {"Validation", "ReadOnly", "Mode"}))
       => (stAudit' = stAudit /\ now' = now)]_vars

\* a push was rejected by the validator on a store that has a trail
C7_Witness ==
  /\ result.op = "push" /\ result.out = "Validation"
  /\ Len(stAudit) >= 1

\* the step is a setAll of an object on a store where an object descriptor is
\* installed, and the object carries every declared field with a valid value
\* and at least one undeclared field
SetAllWithExtras ==
  /\ Called({"setAll"})
  /\ result'.arg.t = "obj"
  /\ Validator.present /\ isObjectSchema(Descriptor)
  /\ CarriesDeclared(Descriptor.flds, result'.arg.flds)
  /\ HasUndeclared(Descriptor.flds, result'.arg.flds)

\* C8: with autoStrip on, such a setAll succeeds and the Document then holds
\* the declared fields with the new values and no undeclared field of value.
C8_AutoStripDropsUndeclared ==
  [][(SetAllWithExtras /\ Policy.autoStrip)
       => (/\ result'.out = "ok"
           /\ View'.t = "obj"
           /\ \A i \in 1..Len(result'.arg.flds) :
                LET k == result'.arg.flds[i].k
                IN IF HasKey(Descriptor.flds, k)
                   THEN Lookup(View'.flds, k) = result'.arg.flds[i].v
                   ELSE ~HasKey(View'.flds, k))]_vars

\* setAll({a, b}) on a store with autoStrip on whose descriptor declares only
\* a: a was stored with the new value, b was dropped
C8_Witness ==
  /\ result.op = "setAll" /\ result.out = "ok" /\ result.arg.t = "obj"
  /\ options.autoStrip
  /\ rawSchema = ObjSchema(<<Pair("a", "string")>>)
  /\ schemaFrom = "setAll"
  /\ result.arg.flds = <<Pair("a", "y"), Pair("b", "x")>>
  /\ data = Obj(<<Pair("a", "y")>>)
  /\ stData = data

\* C9: with autoStrip off, such a setAll, when it succeeds, keeps every field
\* of value, declared or not.
C9_NoStripKeepsUndeclared ==
  [][(SetAllWithExtras /\ ~Policy.autoStrip /\ result'.out = "ok")
       => (/\ View'.t = "obj"
           /\ \A i \in 1..Len(result'.arg.flds) :
                Lookup(View'.flds, result'.arg.flds[i].k) = result'.arg.flds[i].v)]_vars

\* the step is a successful setAll of an object on a store holding an object
SetAllObjectDone ==
  /\ Called({"setAll"})
  /\ result'.arg.t = "obj"
  /\ result'.out = "ok"
  /\ View.t = "obj"

\* C10 as stated: a key that was in the Document and is not a field of value
\* is still there with its old value.
C10_SetAllMerges ==
  [][SetAllObjectDone
       => \A i \in 1..Len(View.flds) :
            LET k == View.flds[i].k
            IN ~HasKey(result'.arg.flds, k)
                 => Lookup(View'.flds, k) = View.flds[i].v]_vars

\* C10 amended: setAll replaces the Document; every key of the Document after
\* the call is a field of value, with the value it has in value, and a key
\* that was in the Document and is not a field of value is gone.
C10_SetAllReplaces ==
  [][SetAllObjectDone
       => (/\ View'.t = "obj"
           /\ stData' = View'
           /\ \A i \in 1..Len(View'.flds) :
                /\ HasKey(result'.arg.flds, View'.flds[i].k)
                /\ Lookup(result'.arg.flds, View'.flds[i].k) = View'.flds[i].v)]_vars

\* set("b", ...) then setAll({a}) succeeded: b, set by the call before, is
\* not in the Document any more
C10_Witness ==
  /\ result.op = "setAll" /\ result.out = "ok" /\ result.arg.t = "obj"
  /\ KeysOf(result.arg.flds) = <<"a">>
  /\ Len(stAudit) >= 2
  /\ stAudit[2].action = "set" /\ stAudit[2].keys = <<"b">>
  /\ stAudit[1].action = "setAll"
  /\ data = Obj(<<Pair("a", result.arg.flds[1].v)>>)
  /\ stData = data

\* two objects are the same document: the same keys with the same values,
\* whatever the order of the keys
SameFields(f, g) ==
  /\ \A i \in 1..Len(f) : HasKey(g, f[i].k) /\ Lookup(g, f[i].k) = f[i].v
  /\ \A i \in 1..Len(g) : HasKey(f, g[i].k)

\* the tag the inference rule gives a literal, as the rule is stated
RuleTag(l) ==
  CASE l \in {"@", "j@x.io"} -> "email"
    [] l \in {"x", "y"}       -> "string"
    [] l \in {"n1", "n2"}     -> "number"
    [] l = "true"             -> "boolean"
    [] l = "[]"               -> "array"
    [] l = "{}"               -> "object"
    [] OTHER                  -> "any"

RuleFields(f) == [i \in 1..Len(f) |-> Pair(f[i].k, RuleTag(f[i].v))]

\* the step is a setAll of an object, on a store in object mode that accepts
\* writes, and the object carries every field the installed descriptor (or
\* the one the rule infers from it) declares, with a valid value
SetAllConformant ==
  /\ Called({"setAll"})
  /\ result'.arg.t = "obj"
  /\ View.t = "obj"
  /\ ~Policy.readOnly
  /\ IF Validator.present
     THEN /\ isObjectSchema(Descriptor)
          /\ CarriesDeclared(Descriptor.flds, result'.arg.flds)
     ELSE CarriesDeclared(RuleFields(result'.arg.flds), result'.arg.flds)

\* C11: with autoStrip off, setAll(x) of a conformant x succeeds and getAll()
\* right after it returns a document equal to x.
C11_SetAllGetAllRoundTrip ==
  [][(SetAllConformant /\ ~Policy.autoStrip)
       => (/\ result'.out = "ok"
           /\ View'.t = "obj"
           /\ SameFields(View'.flds, result'.arg.flds))]_vars

\* the descriptor the array rule gives [item]
RuleForItem(item) ==
  IF item.t = "obj" THEN ArrObjSchema(RuleFields(item.flds))
  ELSE IF item.t = "lit" THEN ArrSchema(RuleTag(item.lit))
  ELSE ArrSchema("any")

\* C12: push(item) on a store that holds no array and has no descriptor
\* succeeds: getAll() then returns [item], the descriptor is the array
\* descriptor inferred from [item], and one push entry is at the front of
\* the trail.
C12_FirstPushCreatesArray ==
  [][(Called({"push"}) /\ View.t # "arr" /\ ~Validator.present /\ ~Policy.readOnly)
       => (/\ result'.out = "ok"
           /\ View' = Arr(<<result'.arg>>)
           /\ Descriptor' = RuleForItem(result'.arg)
           /\ stAudit' = Slice(<<Entry("push", <<>>, now)>> \o stAudit, AuditCap))]_vars

\* item satisfies the element type of an array descriptor: the tag's check,
\* or every declared field of a nested object descriptor
ItemMatches(desc, item) ==
  IF desc.elem = "__object"
  THEN item.t = "obj" /\ CarriesDeclared(desc.flds, item.flds)
  ELSE CASE desc.elem = "string"  -> item.t = "lit" /\ item.lit \in StringLits
         [] desc.elem = "number"  -> item.t = "lit" /\ item.lit \in NumberLits
         [] desc.elem = "boolean" -> item.t = "lit" /\ item.lit = "true"
         [] desc.elem = "email"   -> item.t = "lit" /\ item.lit = "j@x.io"
         [] OTHER                 -> TRUE

\* C13: in array mode with an array descriptor installed, push of an item
\* that does not match the element type fails with a validation error, and
\* the array (in memory and in storage) and the trail are what they were.
C13_PushRejectsMismatch ==
  [][(/\ Called({"push"})
      /\ View.t = "arr"
      /\ ~Policy.readOnly
      /\ Validator.present /\ isArraySchema(Descriptor)
      /\ ~ItemMatches(Descriptor, result'.arg))
       => (/\ result'.out = "Validation"
           /\ View' = View /\ data' = View
           /\ stData' = stData
           /\ stAudit' = stAudit /\ now' = now)]_vars

\* a string was pushed to a stored array of numbers and rejected
C13_Witness ==
  /\ result.op = "push" /\ result.out = "Validation"
  /\ result.arg = Lit("x")
  /\ rawSchema = ArrSchema("number")
  /\ schemaFrom = "setAll"
  /\ Len(stData.items) >= 1 /\ data = stData
  /\ Len(stAudit) = 1

\* C14: once readOnly = true is stored, delete and clear fail with the
\* read-only error and leave the Document and the trail as they were.
C14_ReadOnlyBlocksDeleteClear ==
  [][(stOptions.present /\ stOptions.readOnly /\ Called({"delete", "clear"}))
       => (/\ result'.out = "ReadOnly"
           /\ View' = View /\ stData' = stData
           /\ stAudit' = stAudit)]_vars

\* C15: clear() leaves the empty object as the Document, does not touch the
\* descriptor or the policy, in memory or in storage, and makes the persisted
\* trail one clear entry followed by the previous trail; also right after a
\* restart.
C15_ClearEmptiesOnlyDocument ==
  [][(Called({"clear"}) /\ ~Policy.readOnly)
       => (/\ result'.out = "ok"
           /\ View' = Obj(<<>>)
           /\ Descriptor' = Descriptor /\ stSchema' = stSchema
           /\ Policy' = Policy /\ stOptions' = stOptions
           /\ stAudit' = Slice(<<Entry("clear", <<>>, now)>> \o stAudit, AuditCap))]_vars

\* C16: set(key, value) succeeds only if the whole Document that results
\* from the assignment satisfies the descriptor: after a successful set every
\* declared field is in the Document with a valid value, and a set whose
\* resulting Document misses a declared field, or holds an invalid one, is
\* rejected even when value itself is valid.
C16_SetValidatesWholeDocument ==
  [][Called({"set"})
       => (/\ result'.out = "ok"
                => (/\ View'.t = "obj"
                    /\ isObjectSchema(Descriptor')
                    /\ CarriesDeclared(Descriptor'.flds, View'.flds))
           /\ (/\ View.t = "obj" /\ ~Policy.readOnly
               /\ Validator.present /\ isObjectSchema(Descriptor)
               /\ ~CarriesDeclared(Descriptor.flds,
                                   Assign(View.flds, result'.key, result'.arg.lit)))
                => result'.out = "Validation")]_vars

\* after setAll and the delete of a declared key, a set of a valid value for
\* another declared key was rejected
C16_Witness ==
  /\ result.op = "set" /\ result.out = "Validation"
  /\ isObjectSchema(rawSchema)
  /\ HasKey(rawSchema.flds, result.key)
  /\ CheckTag(Lookup(rawSchema.flds, result.key), result.arg.lit)
  /\ \E i \in 1..Len(rawSchema.flds) : ~HasKey(data.flds, rawSchema.flds[i].k)
  /\ Len(stAudit) = 2 /\ stAudit[1].action = "delete"

\* the policy setOptions(opts) should leave: the fields given, the others kept
MergedPolicy(old, opts) ==
  [autoStrip |-> CASE opts.autoStrip = "T" -> TRUE
                   [] opts.autoStrip = "F" -> FALSE
                   [] OTHER -> old.autoStrip,
   readOnly  |-> CASE opts.readOnly = "T" -> TRUE
                   [] opts.readOnly = "F" -> FALSE
                   [] OTHER -> old.readOnly]

\* C17: a store nobody configured has the policy {false, false}; setOptions
\* overwrites only the fields given and persists the merged policy; that
\* policy is what getOptions returns and what set is gated by, right away and
\* after a restart.
C17_OptionsMergeAndPersist ==
  [][/\ (~stOptions.present => Policy = [autoStrip |-> FALSE, readOnly |-> FALSE])
     /\ (Called({"setOptions"})
           => (/\ result'.out = "ok"
               /\ Policy' = MergedPolicy(Policy, result'.opts)
               /\ options' = Policy'
               /\ stOptions'.present
               /\ stOptions'.autoStrip = Policy'.autoStrip
               /\ stOptions'.readOnly = Policy'.readOnly))
     /\ (Called({"restart"}) => Policy' = Policy)
     /\ (Called({"getOptions"}) => (options' = Policy /\ Policy' = Policy))
     /\ (Called({"set"}) => (result'.out = "ReadOnly" <=> Policy.readOnly))]_vars

\* two setOptions calls, each giving one flag, left both flags on
C17_Witness ==
  /\ result.op = "setOptions"
  /\ result.opts = [readOnly |-> "T", autoStrip |-> "-"]
  /\ options = [autoStrip |-> TRUE, readOnly |-> TRUE]
  /\ stOptions = [present |-> TRUE, autoStrip |-> TRUE, readOnly |-> TRUE]

\* the fields a set or setAll call writes
WrittenFields ==
  IF result'.op = "set" THEN <<Pair(result'.key, result'.arg.lit)>>
  ELSE result'.arg.flds

\* C18: a set or setAll that writes an object to a store without descriptor
\* installs, in memory and in storage, the descriptor that has exactly the
\* fields written, each with the tag the rule gives its value.
C18_ObjectInferenceFollowsRule ==
  [][(/\ Called({"set", "setAll"})
      /\ ~Validator.present
      /\ ~Policy.readOnly
      /\ (result'.op = "set" => View.t = "obj")
      /\ (result'.op = "setAll" => result'.arg.t = "obj"))
       => (/\ Descriptor' = ObjSchema(RuleFields(WrittenFields))
           /\ rawSchema' = Descriptor'
           /\ stSchema' = Descriptor')]_vars

\* a first setAll of an object with an '@' string and a nested object
C18_Witness ==
  /\ calls = 1 /\ result.op = "setAll"
  /\ result.arg = Obj(<<Pair("a", "j@x.io"), Pair("b", "{}")>>)
  /\ rawSchema = ObjSchema(<<Pair("a", "email"), Pair("b", "object")>>)
  /\ stSchema = rawSchema

\* the array the call writes: the argument of setAll, [item] for push
WrittenItems ==
  IF result'.op = "push" THEN <<result'.arg>> ELSE result'.arg.items

RuleForArray(items) ==
  IF Len(items) = 0 THEN ArrSchema("any") ELSE RuleForItem(items[1])

\* C19: a setAll of an array, or a push, on a store without descriptor
\* installs the array descriptor the rule gives the first element (any for
\* the empty array); the other elements play no part.
C19_ArrayInferenceFromFirstElement ==
  [][(/\ Called({"setAll", "push"})
      /\ ~Validator.present
      /\ (result'.op = "setAll" => result'.arg.t = "arr"))
       => (/\ Descriptor' = RuleForArray(WrittenItems)
           /\ rawSchema' = Descriptor'
           /\ stSchema' = Descriptor')]_vars

\* a first setAll of an array whose first element is an object and whose
\* second is a number: the descriptor is the one of the object
C19_Witness ==
  /\ calls = 1 /\ result.op = "setAll"
  /\ result.arg = Arr(<<Obj(<<Pair("a", "@"), Pair("b", "[]")>>), Lit("n1")>>)
  /\ rawSchema = ArrObjSchema(<<Pair("a", "email"), Pair("b", "array")>>)
  /\ stSchema = rawSchema

\* C20: while the Document is an array, get returns nothing, keys returns the
\* empty sequence and has returns false; none of them fails, and the
\* Document, descriptor, policy and trail are what they were.
C20_ArrayModeReads ==
  [][(Called({"get", "keys", "has"}) /\ View.t = "arr")
       => (/\ result'.out = "ok"
           /\ result'.ret.value = "undefined"
           /\ result'.ret.keys = <<>>
           /\ result'.ret.has = FALSE
           /\ View' = View
           /\ Descriptor' = Descriptor /\ Policy' = Policy
           /\ <<stData', stSchema', stOptions', stAudit', now'>> =
                <<stData, stSchema, stOptions, stAudit, now>>)]_vars

\* keys() was called on a stored array of two elements
C20_Witness ==
  /\ result.op = "keys" /\ result.out = "ok"
  /\ data.t = "arr" /\ Len(data.items) = 2
  /\ stData = data
  /\ result.ret.keys = <<>>

\* C21: while the persisted Document is an array, the empty array included
\* (it is then also the Document a call sees), set fails
\* with the mode error, installs no descriptor and leaves the Document and
\* the trail as they were.
C21_SetFailsInArrayMode ==
  [][(Called({"set"}) /\ stData.t = "arr" /\ ~Policy.readOnly)
       => (/\ result'.out = "Mode"
           /\ View.t = "arr"
           /\ View' = View /\ stData' = stData
           /\ Descriptor' = Descriptor /\ stSchema' = stSchema
           /\ Validator' = Validator
           /\ stAudit' = stAudit /\ now' = now)]_vars

\* set was refused on a store whose persisted Document is the empty array
C21_Witness ==
  /\ result.op = "set" /\ result.out = "Mode"
  /\ stData = Arr(<<>>) /\ data = Arr(<<>>)
  /\ Len(stAudit) = 1 /\ stAudit[1].action = "setAll"

\* C22: in object mode delete(key) never fails; the key is gone afterwards,
\* every other key keeps its value (so an absent key changes nothing), the
\* result is persisted and one delete entry with keys = [key] is added.
C22_DeleteRemovesOnlyKey ==
  [][(Called({"delete"}) /\ View.t = "obj" /\ ~Policy.readOnly)
       => (/\ result'.out = "ok"
           /\ View'.t = "obj"
           /\ ~HasKey(View'.flds, result'.key)
           /\ \A i \in 1..Len(View.flds) :
                View.flds[i].k # result'.key
                  => Lookup(View'.flds, View.flds[i].k) = View.flds[i].v
           /\ \A i \in 1..Len(View'.flds) : HasKey(View.flds, View'.flds[i].k)
           /\ stData' = View'
           /\ stAudit' = Slice(<<Entry("delete", <<result'.key>>, now)>> \o stAudit,
                               AuditCap))]_vars

\* delete removed one of the two keys of the Document
C22_Witness ==
  /\ result.op = "delete" /\ result.out = "ok"
  /\ Len(stAudit) = 2 /\ stAudit[2].action = "setAll"
  /\ stAudit[2].keys = <<"a", "b">>
  /\ Len(stData.flds) = 1 /\ ~HasKey(stData.flds, result.key)

\* C23: setSchema(d) always succeeds; afterwards d is the descriptor in
\* memory and in storage, the validator is the one compiled from d, and the
\* Document and the trail are what they were.
C23_SetSchemaReplacesOnlyDescriptor ==
  [][Called({"setSchema"})
       => (/\ result'.out = "ok"
           /\ Descriptor' = result'.schema
           /\ rawSchema' = result'.schema
           /\ stSchema' = result'.schema
           /\ Validator' = buildZodSchema(result'.schema)
           /\ View' = View /\ stData' = stData
           /\ Policy' = Policy /\ stOptions' = stOptions
           /\ stAudit' = stAudit /\ now' = now)]_vars

\* an array descriptor was set on a store that holds a non-empty object and
\* had an inferred object descriptor
C23_Witness ==
  /\ result.op = "setSchema" /\ result.schema = ArrSchema("number")
  /\ rawSchema = ArrSchema("number")
  /\ zodSchema.arr
  /\ data.t = "obj" /\ Len(data.flds) >= 1 /\ stData = data
  /\ Len(stAudit) = 1

\* C24: a validator is present exactly when a descriptor has been installed
\* (the empty object descriptor included), and it is the compilation of that
\* descriptor, before and after a restart.
C24_ValidatorNeverStale ==
  /\ (schemaFrom # "none" <=> Validator.present)
  /\ (Validator.present => Validator = buildZodSchema(Descriptor))

\* C25: get changes nothing a caller can see and nothing in storage, and a
\* get that follows a get of the same key, with no call in between, returns
\* the same value and leaves memory as it was.
C25_GetIdempotent ==
  [][Called({"get"})
       => (/\ result'.out = "ok"
           /\ result'.ret.value = Lookup(View.flds, result'.key)
           /\ View' = View /\ Descriptor' = Descriptor
           /\ Validator' = Validator /\ Policy' = Policy
           /\ <<stData', stSchema', stOptions', stAudit', now'>> =
                <<stData, stSchema, stOptions, stAudit, now>>
           /\ (result.op = "get" /\ result.key = result'.key
                 => (/\ result'.ret = result.ret
                     /\ <<data', rawSchema', zodSchema', options', auditLog'>> =
                          <<data, rawSchema, zodSchema, options, auditLog>>)))]_vars

\* a get returned the value a set stored two calls before
C25_Witness ==
  /\ calls = 3
  /\ result.op = "get" /\ result.ret.value = "x"
  /\ Len(stAudit) = 1 /\ stAudit[1].action = "set"
  /\ stAudit[1].keys = <<result.key>>

\* C26: after every call the Document, descriptor and policy in memory are
\* the persisted ones, so that a restart changes nothing a later call sees.
C26_MemoryEqualsStorage ==
  /\ View = stData
  /\ Descriptor = stSchema
  /\ (stOptions.present =>
        options = [autoStrip |-> stOptions.autoStrip, readOnly |-> stOptions.readOnly])

\* the call just made wrote the field k = v and returned without error
WrittenBySuccessfulCall(k, v) ==
  /\ result'.out = "ok"
  /\ \/ result'.op = "set" /\ result'.key = k /\ result'.arg.lit = v
     \/ /\ result'.op = "setAll" /\ result'.arg.t = "obj"
        /\ HasKey(result'.arg.flds, k) /\ Lookup(result'.arg.flds, k) = v

\* C27: every key/value pair of the persisted Document was there before the
\* call or was written by this call, a set or setAll that succeeded; a value
\* that validation rejected is never persisted by a later call.
C27_RejectedValueNeverPersisted ==
  [][stData'.t = "obj"
       => \A i \in 1..Len(stData'.flds) :
            LET p == stData'.flds[i]
            IN \/ (stData.t = "obj" /\ HasKey(stData.flds, p.k)
                                    /\ Lookup(stData.flds, p.k) = p.v)
               \/ WrittenBySuccessfulCall(p.k, p.v)]_vars

\* C28: push, set and delete never turn a non-empty object Document into an
\* array and never drop a key other than the one delete names.
C28_ModeChangesOnlyByReplace ==
  [][(/\ Called({"push", "set", "delete"})
      /\ stData.t = "obj" /\ Len(stData.flds) > 0)
       => (/\ stData'.t = "obj"
           /\ View'.t = "obj"
           /\ \A i \in 1..Len(stData.flds) :
                (result'.op = "delete" /\ result'.key = stData.flds[i].k)
                  \/ HasKey(stData'.flds, stData.flds[i].k))]_vars

\* C29: once a descriptor has been installed, by inference or by setSchema,
\* no set, setAll, push, delete or clear changes the descriptor, in memory or
\* in storage, also after a restart.
C29_DescriptorInstalledOnce ==
  [][(Called({"set", "setAll", "push", "delete", "clear"}) /\ schemaFrom # "none")
       => (Descriptor' = Descriptor /\ stSchema' = stSchema)]_vars

\* the persisted Document shows the mutation of the call just made
MutationPersisted ==
  CASE result'.op = "set" ->
         stData'.t = "obj" /\ Lookup(stData'.flds, result'.key) = result'.arg.lit
    [] result'.op = "delete" ->
         stData'.t = "obj" /\ ~HasKey(stData'.flds, result'.key)
    [] result'.op = "clear" -> stData' = Obj(<<>>)
    [] result'.op = "push" ->
         /\ stData'.t = "arr" /\ Len(stData'.items) >= 1
         /\ stData'.items[Len(stData'.items)] = result'.arg
    [] result'.op = "setAll" ->
         IF result'.arg.t = "arr" THEN stData' = result'.arg
         ELSE /\ stData'.t = "obj"
              /\ \A i \in 1..Len(stData'.flds) :
                   Lookup(result'.arg.flds, stData'.flds[i].k) = stData'.flds[i].v
    [] OTHER -> FALSE

\* C30: a write that stops between its two storage writes has persisted the
\* Document and not the audit entry, and whenever the persisted trail gains
\* an entry the persisted Document already shows that mutation.
C30_DocumentSavedBeforeAudit ==
  [][/\ (calls' = calls + 1 /\ result'.out = "Crashed")
          => (stAudit' = stAudit /\ MutationPersisted)
     /\ stAudit' # stAudit
          => (result'.out = "ok" /\ MutationPersisted)]_vars

\* a delete stopped between its writes: the key is gone from the persisted
\* Document and the trail still ends with the setAll that wrote it
C30_Witness ==
  /\ result.op = "delete" /\ result.out = "Crashed"
  /\ Len(stAudit) = 1 /\ stAudit[1].action = "setAll"
  /\ result.key \in {stAudit[1].keys[i] : i \in 1..Len(stAudit[1].keys)}
  /\ stData.t = "obj" /\ ~HasKey(stData.flds, result.key)

\* C31: a set, setAll or push that fails validation on a store without
\* descriptor installs and persists no descriptor.
C31_FailedWriteInstallsNothing ==
  [][(/\ Called({"set", "setAll", "push"})
      /\ schemaFrom = "none" /\ ~Validator.present
      /\ result'.out = "Validation")
       => (/\ Descriptor' = Descriptor
           /\ stSchema' = stSchema
           /\ ~Validator'.present)]_vars

\* C32: the first write to a store without descriptor never fails with a
\* validation error: the value passes the validator compiled from the
\* descriptor inferred from it.
C32_InferenceSound ==
  [][(/\ Called({"set", "setAll", "push"})
      /\ ~Validator.present
      /\ ~Policy.readOnly
      /\ (result'.op = "set" => View.t = "obj"))
       => result'.out # "Validation"]_vars

\* value was checked against the descriptor: as a whole, or, for an array
\* written under an object descriptor, element by element
CheckedAgainst(desc, v) ==
  IF isArraySchema(desc)
  THEN v.t = "arr" /\ \A i \in 1..Len(v.items) : ItemMatches(desc, v.items[i])
  ELSE IF v.t = "obj" THEN CarriesDeclared(desc.flds, v.flds)
  ELSE \A i \in 1..Len(v.items) :
         v.items[i].t = "obj" /\ CarriesDeclared(desc.flds, v.items[i].flds)

\* C33: with a validator present, a setAll that succeeds has checked its
\* value against the descriptor, whatever the shape of the value and the
\* kind of the descriptor.
C33_SetAllAlwaysValidates ==
  [][(Called({"setAll"}) /\ Validator.present /\ result'.out = "ok")
       => CheckedAgainst(Descriptor, result'.arg)]_vars

\* the stored array agrees with the installed array descriptor
ElementsMatch ==
  (stData.t = "arr" /\ isArraySchema(Descriptor))
    => \A i \in 1..Len(stData.items) : ItemMatches(Descriptor, stData.items[i])

\* C34: a stored array whose elements match the installed array descriptor
\* still does after any set, setAll, push, delete, clear or restart; only a
\* setSchema call can leave elements that do not match the descriptor.
C34_ArrayElementsMatchDescriptor ==
  [][(~Called({"setSchema"}) /\ ElementsMatch) => ElementsMatch']_vars

\* C35: setOptions succeeds in every state, a read-only store included; it
\* leaves the document, the descriptor with its validator and the trail as
\* they were; and after a setOptions that gave readOnly: false the next
\* write is not refused as read-only.
C35_SetOptionsOnlyChangesPolicy ==
  [][/\ (Called({"setOptions"})
           => (/\ result'.out = "ok"
               /\ (result'.opts.readOnly = "F" => ~Policy'.readOnly)
               /\ View' = View /\ stData' = stData
               /\ Descriptor' = Descriptor /\ stSchema' = stSchema
               /\ Validator' = Validator
               /\ schemaFrom' = schemaFrom
               /\ stAudit' = stAudit /\ now' = now))
     /\ ((/\ Called({"set", "setAll", "push", "delete", "clear"})
          /\ result.op = "setOptions" /\ result.opts.readOnly = "F")
           => result'.out # "ReadOnly")]_vars

\* setOptions({readOnly: false}) succeeded on a store that holds a document,
\* an inferred descriptor and a trail, and left them in place
C35_Witness ==
  /\ result.op = "setOptions" /\ result.opts.readOnly = "F" /\ result.out = "ok"
  /\ stOptions.present /\ ~stOptions.readOnly /\ ~options.readOnly
  /\ Len(stData.flds) = 1 /\ schemaFrom = "set" /\ Len(stAudit) = 1

====
